---- MODULE Spec2Model ----
(***************************************************************************)
(* Tile areas and tile iterators of OpenTTD's copy/paste branch            *)
(* (tilearea.cpp): OrthogonalTileAreaT, DiagonalTileAreaT,                 *)
(* DiagonalTileIteratorController and TransformationTileIteratorController,*)
(* and the clipboard buffers with their station lists (clipboard.cpp).     *)
(*                                                                         *)
(* These state machines share this module, one per object under study:     *)
(*   SpecOrth      an OrthogonalTileAreaT and the calls that change it     *)
(*   SpecOrthQ     an OrthogonalTileAreaT, ClampToMap and Contains(tile)   *)
(*   SpecOrthP     an OrthogonalTileAreaT compared with a second area      *)
(*   SpecDArea     a DiagonalTileAreaT and Contains queries on it          *)
(*   SpecDiag      a diagonal iterator running over a DiagonalTileAreaT    *)
(*   SpecDiagStep  the diagonal iterator, one pass of Advance's loop each  *)
(*   SpecTrans     a transformation iterator running over two maps         *)
(*   SpecClip      the clipboard buffers and a builder of station lists    *)
(*   SpecClipA     one clipboard buffer, allocated in every size           *)
(*   SpecBuild     a builder of station lists and the calls that add parts *)
(* The variables of the objects a specification does not exercise stay at  *)
(* their idle values.                                                      *)
(***************************************************************************)
EXTENDS Integers, Naturals, Sequences, FiniteSets, TLC

VARIABLES
    map,        \* the map the area / the diagonal iterator lives on: [size_x, size_y]
    area,       \* OrthogonalTileAreaT: [tile, w, h]
    okind,      \* how the orthogonal area was constructed
    obox,       \* history: bounding box [sx, sy, ex, ey] of the tiles given so far, or <<>>
    ocall,      \* the last call made on the orthogonal area: [op, arg, pre, ret]
    darea,      \* DiagonalTileAreaT: [tile, a, b]
    dcorners,   \* history: the two corners the diagonal area was built from
    dcall,      \* the last call on the diagonal area or iterator: [op, ...]
    diter,      \* DiagonalTileIteratorController + the iterator's index
    yielded,    \* history: the tiles the diagonal iterator has stood on, in order
    titer,      \* TransformationTileIteratorController + both indices + both maps
    tghost,     \* history of the transformation iterator: initial indices, h, calls made
    clipboard_buffers,   \* _clipboard_buffers: per buffer the Map [size_x, size_y, size, m, me]
    clipboard_stations,  \* _clipboard_stations: per buffer the head of its station list
    heap,       \* the ClipboardStation objects: [state, id, next, frees]
    builder,    \* a ClipboardStationsBuilder: [alive, stations] + history: the ids added
    ccall       \* the last call on the clipboard or the builder: [op, ...]

vars == <<map, area, okind, obox, ocall, darea, dcorners, dcall, diter, yielded, titer, tghost,
          clipboard_buffers, clipboard_stations, heap, builder, ccall>>

-----------------------------------------------------------------------------
(* Bounds of the model *)

\* the diagonal iterator is run on every map of 1..MaxDiagMap x 1..MaxDiagMap tiles
MaxDiagMap == 5

\* the orthogonal area lives on a map of OrthMapX x OrthMapY tiles
OrthMapX == 7

OrthMapY == 7

\* OrthogonalTileAreaT(tile, w, h) is called with w and h up to MaxRawExtent
MaxRawExtent == 2

\* two orthogonal areas are compared on a map of PairMapX x PairMapY tiles
PairMapX == 3

PairMapY == 2

\* the transformation iterator reads a map of up to MaxSrcMap x MaxSrcMap tiles
\* and writes a map of up to MaxDstMap x MaxDstMap tiles
MaxSrcMap == 3

MaxDstMap == 3

\* the clipboard has ClipBuffers buffers, and a buffer is allocated for a
\* content of up to MaxContent x MaxContent tiles
ClipBuffers == 2

MaxContent == 2

\* builders create up to MaxStations ClipboardStation objects, for the stations
\* 0 .. MaxStationID
MaxStations == 3

MaxStationID == 1

\* AddRailPart is called with a specindex up to MaxSpecIndex
MaxSpecIndex == 0

-----------------------------------------------------------------------------
(* Machine arithmetic *)

\* `uint` arithmetic wraps around.  The model keeps the wrap-around but with a
\* 30 bit word, since TLC's integers are 32 bit signed; every tile
\* coordinate of the model is far below either modulus.
UINT_MOD == 1073741824

ToUint(v) == v % UINT_MOD

INVALID_TILE_INDEX == UINT_MOD - 1

\* C integer division truncates towards zero
CDiv(n, d) == IF n >= 0 THEN n \div d ELSE -((-n) \div d)

\* abs(int)
abs(v) == IF v < 0 THEN -v ELSE v

min(x, y) == IF x < y THEN x ELSE y

max(x, y) == IF x > y THEN x ELSE y

-----------------------------------------------------------------------------
(* Coordinate primitives of a map m = [size_x, size_y] *)

MapSizeX(m) == m.size_x

MapSizeY(m) == m.size_y

MapSize(m) == m.size_x * m.size_y

TileX(m, t) == t % m.size_x

TileY(m, t) == t \div m.size_x

TileXY(x, y, m) == y * m.size_x + x

IsValidTileIndex(m, t) == t < MapSize(m)

\* the valid tile indices of a map
Tiles(m) == 0 .. (MapSize(m) - 1)

Maps(n) == [size_x : 1 .. n, size_y : 1 .. n]

-----------------------------------------------------------------------------
(* DiagonalTileAreaT *)

\* DiagonalTileAreaT(start, end)
DiagonalTileAreaT(m, start, end) ==
    LET a0 == TileY(m, end) + TileX(m, end) - TileY(m, start) - TileX(m, start)
        b0 == TileY(m, end) - TileX(m, end) - TileY(m, start) + TileX(m, start)
    IN  [tile |-> start,
         a    |-> IF a0 > 0 THEN a0 + 1 ELSE a0 - 1,
         b    |-> IF b0 > 0 THEN b0 + 1 ELSE b0 - 1]

\* DiagContains swapping start and end without keeping the end exclusive
DiagContainsPlainSwap(m, da, tile) ==
    LET a        == TileY(m, tile) + TileX(m, tile)
        b        == TileY(m, tile) - TileX(m, tile)
        start_a0 == TileY(m, da.tile) + TileX(m, da.tile)
        start_b0 == TileY(m, da.tile) - TileX(m, da.tile)
        end_a0   == start_a0 + da.a
        end_b0   == start_b0 + da.b
        start_a  == IF start_a0 > end_a0 THEN end_a0 ELSE start_a0
        end_a    == IF start_a0 > end_a0 THEN start_a0 ELSE end_a0
        start_b  == IF start_b0 > end_b0 THEN end_b0 ELSE start_b0
        end_b    == IF start_b0 > end_b0 THEN start_b0 ELSE end_b0
    IN  a >= start_a /\ a < end_a /\ b >= start_b /\ b < end_b

\* DiagonalTileAreaT::Contains(tile)
DiagContains(m, da, tile) ==
    LET a        == TileY(m, tile) + TileX(m, tile)
        b        == TileY(m, tile) - TileX(m, tile)
        start_a0 == TileY(m, da.tile) + TileX(m, da.tile)
        start_b0 == TileY(m, da.tile) - TileX(m, da.tile)
        end_a0   == start_a0 + da.a
        end_b0   == start_b0 + da.b
        start_a  == IF start_a0 > end_a0 THEN end_a0 + 1 ELSE start_a0
        end_a    == IF start_a0 > end_a0 THEN start_a0 + 1 ELSE end_a0
        start_b  == IF start_b0 > end_b0 THEN end_b0 + 1 ELSE start_b0
        end_b    == IF start_b0 > end_b0 THEN start_b0 + 1 ELSE end_b0
    IN  a >= start_a /\ a < end_a /\ b >= start_b /\ b < end_b

-----------------------------------------------------------------------------
(* DiagonalTileIteratorController *)

\* DiagonalTileIterator(const DiagonalTileArea &ta): the iterator stands on the
\* area's tile, base_x/base_y are its coordinates, a_cur = b_cur = 0 and
\* a_max/b_max are the area's extents
DiagonalTileIterator(m, da) ==
    [index  |-> da.tile,
     base_x |-> TileX(m, da.tile),
     base_y |-> TileY(m, da.tile),
     a_cur  |-> 0,
     b_cur  |-> 0,
     a_max  |-> da.a,
     b_max  |-> da.b]

\* DiagNextCur with the start of a new line not alternating: always 0
DiagNextCurNoParity(it) ==
    IF it.a_max = 1 \/ it.a_max = -1
    THEN [a_cur |-> 0,
          b_cur |-> IF it.b_max > 0 THEN min(it.b_cur + 2, it.b_max)
                                    ELSE max(it.b_cur - 2, it.b_max)]
    ELSE LET a2       == IF it.a_max > 0 THEN it.a_cur + 2 ELSE it.a_cur - 2
             new_line == IF it.a_max > 0 THEN a2 >= it.a_max ELSE a2 <= it.a_max
         IN  IF new_line
             THEN [a_cur |-> 0,
                   b_cur |-> IF it.b_max > 0 THEN it.b_cur + 1 ELSE it.b_cur - 1]
             ELSE [a_cur |-> a2, b_cur |-> it.b_cur]

\* DiagNextCur with a new line that does not move b_cur
DiagNextCurSameLine(it) ==
    IF it.a_max = 1 \/ it.a_max = -1
    THEN [a_cur |-> 0,
          b_cur |-> IF it.b_max > 0 THEN min(it.b_cur + 2, it.b_max)
                                    ELSE max(it.b_cur - 2, it.b_max)]
    ELSE LET a2       == IF it.a_max > 0 THEN it.a_cur + 2 ELSE it.a_cur - 2
             new_line == IF it.a_max > 0 THEN a2 >= it.a_max ELSE a2 <= it.a_max
         IN  IF new_line
             THEN [a_cur |-> IF abs(a2) % 2 # 0 THEN 0
                             ELSE (IF it.a_max > 0 THEN 1 ELSE -1),
                   b_cur |-> it.b_cur]
             ELSE [a_cur |-> a2, b_cur |-> it.b_cur]

\* the rotated coordinates after one pass through the body of Advance's loop
DiagNextCur(it) ==
    IF it.a_max = 1 \/ it.a_max = -1
    THEN \* every second column has zero length, skip them completely
         [a_cur |-> 0,
          b_cur |-> IF it.b_max > 0 THEN min(it.b_cur + 2, it.b_max)
                                    ELSE max(it.b_cur - 2, it.b_max)]
    ELSE LET a2       == IF it.a_max > 0 THEN it.a_cur + 2 ELSE it.a_cur - 2
             new_line == IF it.a_max > 0 THEN a2 >= it.a_max ELSE a2 <= it.a_max
         IN  IF new_line
             THEN [a_cur |-> IF abs(a2) % 2 # 0 THEN 0
                             ELSE (IF it.a_max > 0 THEN 1 ELSE -1),
                   b_cur |-> IF it.b_max > 0 THEN it.b_cur + 1 ELSE it.b_cur - 1]
             ELSE [a_cur |-> a2, b_cur |-> it.b_cur]

\* DiagIndexOf with the border test on x forgotten
DiagIndexOfNoXClip(m, it, cur) ==
    LET x == ToUint(it.base_x + CDiv(cur.a_cur - cur.b_cur, 2))
        y == ToUint(it.base_y + CDiv(cur.b_cur + cur.a_cur, 2))
    IN  IF y >= MapSizeY(m) THEN INVALID_TILE_INDEX
        ELSE TileXY(x, y, m)

\* the tile index the rotated coordinates convert back to; x and y are uint
DiagIndexOf(m, it, cur) ==
    LET x == ToUint(it.base_x + CDiv(cur.a_cur - cur.b_cur, 2))
        y == ToUint(it.base_y + CDiv(cur.b_cur + cur.a_cur, 2))
    IN  IF x >= MapSizeX(m) \/ y >= MapSizeY(m) THEN INVALID_TILE_INDEX
        ELSE TileXY(x, y, m)

\* one pass through the body of the do-while loop of Advance
DiagLoopBody(m, it) ==
    LET cur == DiagNextCur(it)
    IN  [it EXCEPT !.a_cur = cur.a_cur,
                   !.b_cur = cur.b_cur,
                   !.index = DiagIndexOf(m, it, cur)]

\* DiagLoop leaving the loop at the first off-map position
DiagLoopNoSkip(m, it) == DiagLoopBody(m, it)

\* the do-while loop of Advance: repeat while the tile is invalid and b_cur
\* has not reached b_max
RECURSIVE DiagLoop(_, _)
DiagLoop(m, it) ==
    LET n == DiagLoopBody(m, it)
    IN  IF ~IsValidTileIndex(m, n.index) /\ n.b_max # n.b_cur
        THEN DiagLoop(m, n)
        ELSE n

\* DiagonalTileIteratorController::Advance(my_index, my_map)
DiagAdvance(m, it) ==
    LET n == DiagLoop(m, it)
    IN  IF n.b_max = n.b_cur THEN [n EXCEPT !.index = INVALID_TILE_INDEX] ELSE n

-----------------------------------------------------------------------------
(* Idle values of the objects a specification does not exercise *)

NoMap == [size_x |-> 0, size_y |-> 0]

NoCall == [op |-> "none"]

IdleOrth ==
    /\ area = [tile |-> INVALID_TILE_INDEX, w |-> 0, h |-> 0]
    /\ okind = "idle"
    /\ obox = <<>>
    /\ ocall = NoCall

IdleDArea ==
    /\ darea = [tile |-> INVALID_TILE_INDEX, a |-> 0, b |-> 0]
    /\ dcorners = <<>>
    /\ dcall = NoCall

IdleDiag ==
    /\ diter = [index |-> INVALID_TILE_INDEX]
    /\ yielded = <<>>

IdleTrans ==
    /\ titer = [src_index |-> INVALID_TILE_INDEX, dst_index |-> INVALID_TILE_INDEX]
    /\ tghost = <<>>

IdleClip ==
    /\ clipboard_buffers = <<>>
    /\ clipboard_stations = <<>>
    /\ heap = <<>>
    /\ builder = [alive |-> FALSE]
    /\ ccall = NoCall

ClipUnchanged == UNCHANGED <<clipboard_buffers, clipboard_stations, heap, builder, ccall>>

-----------------------------------------------------------------------------
(* SpecDiag: a diagonal iterator over DiagonalTileAreaT(s, e) *)

InitDiag ==
    /\ map \in Maps(MaxDiagMap)
    /\ \E s \in Tiles(map), e \in Tiles(map) :
          /\ darea = DiagonalTileAreaT(map, s, e)
          /\ dcorners = <<s, e>>
          /\ diter = DiagonalTileIterator(map, DiagonalTileAreaT(map, s, e))
          /\ yielded = <<s>>
    /\ dcall = NoCall
    /\ IdleOrth
    /\ IdleTrans
    /\ IdleClip

\* ++iterator: Advance is called while the index is not the sentinel
DiagIterNext ==
    /\ diter.index # INVALID_TILE_INDEX
    /\ diter' = DiagAdvance(map, diter)
    /\ yielded' = IF diter'.index # INVALID_TILE_INDEX
                  THEN Append(yielded, diter'.index)
                  ELSE yielded
    /\ UNCHANGED <<map, area, okind, obox, ocall, darea, dcorners, dcall, titer, tghost>>
    /\ ClipUnchanged

NextDiag == DiagIterNext

SpecDiag == InitDiag /\ [][NextDiag]_vars

-----------------------------------------------------------------------------
(* SpecDiagStep: the diagonal iterator, one pass of Advance's loop at a time *)

\* dcall tells whether Advance is inside its loop, the iterator the running or
\* last call started from, and whether that call has skipped a position
InitDiagStep ==
    /\ map \in Maps(MaxDiagMap)
    /\ \E s \in Tiles(map), e \in Tiles(map) :
          /\ darea = DiagonalTileAreaT(map, s, e)
          /\ dcorners = <<s, e>>
          /\ diter = DiagonalTileIterator(map, DiagonalTileAreaT(map, s, e))
          /\ dcall = [op |-> "init", in_loop |-> FALSE, skipped |-> FALSE,
                      pre |-> DiagonalTileIterator(map, DiagonalTileAreaT(map, s, e))]
    /\ yielded = <<>>
    /\ IdleOrth
    /\ IdleTrans
    /\ IdleClip

\* the statement after the loop of Advance
DiagLoopExit(n) ==
    IF n.b_max = n.b_cur THEN [n EXCEPT !.index = INVALID_TILE_INDEX] ELSE n

\* one pass through the loop of Advance: the first one when the caller, whose
\* index is not the sentinel, calls Advance, or a further one of a running
\* call; the call returns when the loop's condition is false
DiagLoopPass ==
    /\ dcall.in_loop \/ diter.index # INVALID_TILE_INDEX
    /\ LET n     == DiagLoopBody(map, diter)
           again == ~IsValidTileIndex(map, n.index) /\ n.b_max # n.b_cur
       IN  /\ diter' = IF again THEN n ELSE DiagLoopExit(n)
           /\ dcall' = [op      |-> "Advance",
                        in_loop |-> again,
                        skipped |-> again \/ (dcall.in_loop /\ dcall.skipped),
                        pre     |-> IF dcall.in_loop THEN dcall.pre ELSE diter]
    /\ UNCHANGED <<map, area, okind, obox, ocall, darea, dcorners, yielded, titer, tghost>>
    /\ ClipUnchanged

NextDiagStep == DiagLoopPass

\* the loop runs on and the caller calls Advance until it gets the sentinel
SpecDiagStep == InitDiagStep /\ [][NextDiagStep]_vars /\ WF_vars(DiagLoopPass)

-----------------------------------------------------------------------------
(* SpecDArea: Contains queries on DiagonalTileAreaT(s, e) *)

InitDArea ==
    /\ map \in Maps(MaxDiagMap)
    /\ \E s \in Tiles(map), e \in Tiles(map) :
          /\ darea = DiagonalTileAreaT(map, s, e)
          /\ dcorners = <<s, e>>
    /\ dcall = NoCall
    /\ IdleDiag
    /\ IdleOrth
    /\ IdleTrans
    /\ IdleClip

\* darea.Contains(tile) for a tile of the area's map
DAreaContains ==
    \E tile \in Tiles(map) :
        /\ dcall' = [op |-> "Contains", arg |-> tile, ret |-> DiagContains(map, darea, tile)]
        /\ UNCHANGED <<map, area, okind, obox, ocall, darea, dcorners, diter, yielded,
                       titer, tghost>>
        /\ ClipUnchanged

NextDArea == DAreaContains

SpecDArea == InitDArea /\ [][NextDArea]_vars

-----------------------------------------------------------------------------
(* Properties of the diagonal area *)

\* v lies between p and q inclusive, whichever of the two is larger
Between(v, p, q) == (p <= v /\ v <= q) \/ (q <= v /\ v <= p)

\* the rotated coordinates x + y and y - x of a tile
RotA(m, t) == TileX(m, t) + TileY(m, t)

RotB(m, t) == TileY(m, t) - TileX(m, t)

\* C9: DiagonalArea(s, e).Contains(t) is true exactly when x + y of t lies
\* between those of s and e and y - x of t lies between those of s and e, so
\* the corners are contained and DiagonalArea(e, s) contains the same tiles
C9_DiagContainsIsBetween ==
    dcall.op = "Contains" =>
        LET s == dcorners[1]
            e == dcorners[2]
            t == dcall.arg
        IN  /\ dcall.ret <=> ( /\ Between(RotA(map, t), RotA(map, s), RotA(map, e))
                               /\ Between(RotB(map, t), RotB(map, s), RotB(map, e)) )
            /\ t \in {s, e} => dcall.ret
            /\ dcall.ret <=> DiagContains(map, DiagonalTileAreaT(map, e, s), t)

\* Contains accepted a tile that is no corner, of an area with a > 0 and b < 0
C9_Witness ==
    /\ dcall.op = "Contains"
    /\ dcall.ret
    /\ dcall.arg \notin {dcorners[1], dcorners[2]}
    /\ darea.a > 0
    /\ darea.b < 0

-----------------------------------------------------------------------------
(* Properties of the diagonal iterator *)

DiagDone == diter.index = INVALID_TILE_INDEX

Range(seq) == {seq[i] : i \in DOMAIN seq}

NoDuplicates(seq) == \A i, j \in DOMAIN seq : seq[i] = seq[j] => i = j

\* the on-map tiles DiagonalArea(s, e).Contains accepts
DiagContainedTiles == {t \in Tiles(map) : DiagContains(map, darea, t)}

\* the values of a rotated coordinate a one-past-end extent covers, relative
\* to the area's tile
ExtentRange(ext) == IF ext > 0 THEN 0 .. (ext - 1) ELSE (ext + 1) .. 0

\* the positions of the diamond in rotated coordinates, on the map or not
DiamondPositions ==
    {p \in ExtentRange(darea.a) \X ExtentRange(darea.b) : (p[1] + p[2]) % 2 = 0}

\* part of the diamond lies beyond the map border
DiagClipped == Cardinality(DiagContainedTiles) < Cardinality(DiamondPositions)

\* C1: the tiles the diagonal iterator yields (the start tile and every
\* non-sentinel index Advance returns) are pairwise different, and once the
\* iteration is over they are exactly the on-map tiles the area contains
C1_YieldsExactlyContained ==
    /\ NoDuplicates(yielded)
    /\ Range(yielded) \subseteq DiagContainedTiles
    /\ DiagDone => Range(yielded) = DiagContainedTiles

\* a finished iteration over a diamond that the map border clips
C1_Witness ==
    /\ DiagDone
    /\ DiagClipped
    /\ Len(yielded) >= 3

\* C2: every non-sentinel index Advance has returned lies on the map and is
\* contained in the area
C2_AdvanceStaysInArea ==
    \A i \in 2 .. Len(yielded) :
        /\ TileX(map, yielded[i]) < MapSizeX(map)
        /\ yielded[i] \div MapSizeX(map) < MapSizeY(map)
        /\ DiagContains(map, darea, yielded[i])

\* Advance has returned two tiles of a degenerate strip (a = -1)
C2_Witness ==
    /\ darea.a = -1
    /\ ~DiagDone
    /\ Len(yielded) >= 3

\* Advance has returned
DiagReturned == dcall.op = "Advance" /\ ~dcall.in_loop

\* what holds of every pass and every return of Advance: the rotated
\* coordinates stay within the extents; a call returns what the loop run to
\* its end gives, the sentinel exactly when b_cur has reached b_max and a tile
\* of the map otherwise; a call that skipped an off-map position went on
DiagStepInv ==
    /\ abs(diter.a_cur) < abs(diter.a_max) \/ diter.a_cur = 0
    /\ abs(diter.b_cur) <= abs(diter.b_max)
    /\ dcall.in_loop => diter.b_cur # diter.b_max /\ dcall.skipped
    /\ DiagReturned =>
          /\ diter = DiagAdvance(map, dcall.pre)
          /\ diter.index = INVALID_TILE_INDEX <=> diter.b_cur = diter.b_max
          /\ diter.index # INVALID_TILE_INDEX => IsValidTileIndex(map, diter.index)

\* C16: every call of Advance terminates, the iteration reaches the sentinel
\* after finitely many calls, Advance returns the sentinel exactly when b_cur
\* has reached b_max, and an off-map position met while b_cur # b_max is
\* skipped and does not end the iteration
C16_AdvanceTerminates ==
    /\ []DiagStepInv
    /\ [](dcall.in_loop => <>DiagReturned)
    /\ <>(DiagReturned /\ diter.index = INVALID_TILE_INDEX)

\* Advance skipped an off-map position of an area wider than one diagonal
\* and returned a tile of the map
C16_Witness ==
    /\ DiagReturned
    /\ dcall.skipped
    /\ diter.index # INVALID_TILE_INDEX
    /\ abs(darea.a) > 1
    /\ abs(darea.b) > 1

\* the corners (0,0) and (2,0) on a map that holds them
C10_Scenario ==
    /\ MapSizeX(map) >= 3
    /\ dcorners = <<TileXY(0, 0, map), TileXY(2, 0, map)>>

\* C10 as stated: the iteration from (0,0) to (2,0) yields exactly the three
\* tiles (0,0), (1,0), (2,0)
C10_AsStated ==
    (C10_Scenario /\ DiagDone) =>
        /\ Len(yielded) = 3
        /\ Range(yielded) = {TileXY(0, 0, map), TileXY(1, 0, map), TileXY(2, 0, map)}

\* C10 amended: the iteration from (0,0) to (2,0) yields the four tiles
\* (0,0), (1,1), (1,0), (2,0) in this order on a map at least 2 tiles high, and
\* (0,0), (1,0), (2,0) on a map 1 tile high where (1,1) is clipped
C10_YieldsDiamond ==
    (C10_Scenario /\ DiagDone) =>
        yielded = IF MapSizeY(map) >= 2
                  THEN <<TileXY(0, 0, map), TileXY(1, 1, map),
                         TileXY(1, 0, map), TileXY(2, 0, map)>>
                  ELSE <<TileXY(0, 0, map), TileXY(1, 0, map), TileXY(2, 0, map)>>

\* the iteration from (0,0) to (2,0) has finished on a map that holds (1,1)
C10_Witness ==
    /\ C10_Scenario
    /\ DiagDone
    /\ MapSizeY(map) >= 2
    /\ Len(yielded) = 4

-----------------------------------------------------------------------------
(* OrthogonalTileAreaT *)

\* IsInsideBS(x, base, size): (uint)(x - base) < size
IsInsideBS(x, base, size) == ToUint(x - base) < size

\* OrthogonalTileAreaT(tile, w, h): the fields as given
OrthogonalTileAreaRaw(tile, w, h) == [tile |-> tile, w |-> w, h |-> h]

\* the default OrthogonalTileAreaT(): no tile, no extent
OrthogonalTileAreaEmpty == [tile |-> INVALID_TILE_INDEX, w |-> 0, h |-> 0]

\* OrthogonalTileAreaT(start, end) without the swap of sy and ey
OrthogonalTileAreaTNoSwapY(m, start, end) ==
    LET sx0 == TileX(m, start)
        sy  == TileY(m, start)
        ex0 == TileX(m, end)
        ey  == TileY(m, end)
        sx  == IF sx0 > ex0 THEN ex0 ELSE sx0
        ex  == IF sx0 > ex0 THEN sx0 ELSE ex0
    IN  [tile |-> TileXY(sx, sy, m),
         w    |-> ToUint(ex - sx + 1),
         h    |-> ToUint(ey - sy + 1)]

\* OrthogonalTileAreaT(start, end)
OrthogonalTileAreaT(m, start, end) ==
    LET sx0 == TileX(m, start)
        sy0 == TileY(m, start)
        ex0 == TileX(m, end)
        ey0 == TileY(m, end)
        sx  == IF sx0 > ex0 THEN ex0 ELSE sx0
        ex  == IF sx0 > ex0 THEN sx0 ELSE ex0
        sy  == IF sy0 > ey0 THEN ey0 ELSE sy0
        ey  == IF sy0 > ey0 THEN sy0 ELSE ey0
    IN  [tile |-> TileXY(sx, sy, m),
         w    |-> ToUint(ex - sx + 1),
         h    |-> ToUint(ey - sy + 1)]

\* Add that never moves the area's tile
OrthAddFixedOrigin(m, ta, to_add) ==
    IF ~IsValidTileIndex(m, ta.tile)
    THEN [tile |-> to_add, w |-> 1, h |-> 1]
    ELSE LET sx  == TileX(m, ta.tile)
             sy  == TileY(m, ta.tile)
             ex0 == ToUint(sx + ta.w - 1)
             ey0 == ToUint(sy + ta.h - 1)
             ax  == TileX(m, to_add)
             ay  == TileY(m, to_add)
             ex  == max(ax, ex0)
             ey  == max(ay, ey0)
         IN  [tile |-> TileXY(sx, sy, m),
              w    |-> ToUint(ex - sx + 1),
              h    |-> ToUint(ey - sy + 1)]

\* Add taking tile + extent for the area's last column and row
OrthAddOffByOne(m, ta, to_add) ==
    IF ~IsValidTileIndex(m, ta.tile)
    THEN [tile |-> to_add, w |-> 1, h |-> 1]
    ELSE LET sx0 == TileX(m, ta.tile)
             sy0 == TileY(m, ta.tile)
             ex0 == ToUint(sx0 + ta.w)
             ey0 == ToUint(sy0 + ta.h)
             ax  == TileX(m, to_add)
             ay  == TileY(m, to_add)
             sx  == min(ax, sx0)
             sy  == min(ay, sy0)
             ex  == max(ax, ex0)
             ey  == max(ay, ey0)
         IN  [tile |-> TileXY(sx, sy, m),
              w    |-> ToUint(ex - sx + 1),
              h    |-> ToUint(ey - sy + 1)]

\* OrthogonalTileAreaT::Add(to_add)
OrthAdd(m, ta, to_add) ==
    IF ~IsValidTileIndex(m, ta.tile)
    THEN [tile |-> to_add, w |-> 1, h |-> 1]
    ELSE LET sx0 == TileX(m, ta.tile)
             sy0 == TileY(m, ta.tile)
             ex0 == ToUint(sx0 + ta.w - 1)
             ey0 == ToUint(sy0 + ta.h - 1)
             ax  == TileX(m, to_add)
             ay  == TileY(m, to_add)
             sx  == min(ax, sx0)
             sy  == min(ay, sy0)
             ex  == max(ax, ex0)
             ey  == max(ay, ey0)
         IN  [tile |-> TileXY(sx, sy, m),
              w    |-> ToUint(ex - sx + 1),
              h    |-> ToUint(ey - sy + 1)]

\* the assertions of Contains(tile) past the early return hold
OrthContainsAsserts(ta) == ta.w = 0 \/ (ta.w # 0 /\ ta.h # 0)

\* how a call of Contains(tile) meets its assertions
OrthContainsAssertsMet(ta) ==
    IF ta.w = 0 THEN "skipped"
    ELSE IF ta.w # 0 /\ ta.h # 0 THEN "passed"
    ELSE "failed"

\* Contains(tile) testing the x axis only
OrthContainsXOnly(m, ta, tile) ==
    IF ta.w = 0 THEN FALSE
    ELSE IsInsideBS(TileX(m, tile), TileX(m, ta.tile), ta.w)

\* OrthogonalTileAreaT::Contains(tile)
OrthContains(m, ta, tile) ==
    IF ta.w = 0 THEN FALSE
    ELSE LET left   == TileX(m, ta.tile)
             top    == TileY(m, ta.tile)
             tile_x == TileX(m, tile)
             tile_y == TileY(m, tile)
         IN  IsInsideBS(tile_x, left, ta.w) /\ IsInsideBS(tile_y, top, ta.h)

\* Intersects(ta) and Contains(ta) return false at once when either width is 0
OrthEarlyReturnThisOnly(ta1, ta2) == ta1.w = 0

OrthEarlyReturn(ta1, ta2) == ta2.w = 0 \/ ta1.w = 0

\* the assertion of Intersects(ta) and Contains(ta) past the early return; both
\* areas are on the one map of the model
OrthPairAsserts(ta1, ta2) == ta2.w # 0 /\ ta2.h # 0 /\ ta1.w # 0 /\ ta1.h # 0

\* how a call of Intersects(ta) or Contains(ta) meets its assertions
OrthPairAssertsMet(ta1, ta2) ==
    IF OrthEarlyReturn(ta1, ta2) THEN "skipped"
    ELSE IF OrthPairAsserts(ta1, ta2) THEN "passed"
    ELSE "failed"

\* Intersects without the test bottom2 < top1
OrthIntersectsNoBottom(m, ta1, ta2) ==
    IF OrthEarlyReturn(ta1, ta2) THEN FALSE
    ELSE LET left1   == TileX(m, ta1.tile)
             top1    == TileY(m, ta1.tile)
             right1  == ToUint(left1 + ta1.w - 1)
             bottom1 == ToUint(top1 + ta1.h - 1)
             left2   == TileX(m, ta2.tile)
             top2    == TileY(m, ta2.tile)
             right2  == ToUint(left2 + ta2.w - 1)
         IN  ~(left2 > right1 \/ right2 < left1 \/ top2 > bottom1)

\* OrthogonalTileAreaT::Intersects(ta), called on ta1 with ta = ta2
OrthIntersects(m, ta1, ta2) ==
    IF OrthEarlyReturn(ta1, ta2) THEN FALSE
    ELSE LET left1   == TileX(m, ta1.tile)
             top1    == TileY(m, ta1.tile)
             right1  == ToUint(left1 + ta1.w - 1)
             bottom1 == ToUint(top1 + ta1.h - 1)
             left2   == TileX(m, ta2.tile)
             top2    == TileY(m, ta2.tile)
             right2  == ToUint(left2 + ta2.w - 1)
             bottom2 == ToUint(top2 + ta2.h - 1)
         IN  ~(left2 > right1 \/ right2 < left1 \/ top2 > bottom1 \/ bottom2 < top1)

\* OrthogonalTileAreaT::Contains(ta), called on ta1 with ta = ta2
OrthContainsArea(m, ta1, ta2) ==
    IF OrthEarlyReturn(ta1, ta2) THEN FALSE
    ELSE LET left1   == TileX(m, ta1.tile)
             top1    == TileY(m, ta1.tile)
             right1  == ToUint(left1 + ta1.w - 1)
             bottom1 == ToUint(top1 + ta1.h - 1)
             left2   == TileX(m, ta2.tile)
             top2    == TileY(m, ta2.tile)
             right2  == ToUint(left2 + ta2.w - 1)
             bottom2 == ToUint(top2 + ta2.h - 1)
         IN  left2 >= left1 /\ right2 <= right1 /\ top2 >= top1 /\ bottom2 <= bottom1

\* ClampToMap keeping one tile less than the map has
OrthClampToMapMax(m, ta) ==
    [ta EXCEPT !.w = min(ta.w, ToUint(MapSizeX(m) - 1 - TileX(m, ta.tile))),
               !.h = min(ta.h, ToUint(MapSizeY(m) - 1 - TileY(m, ta.tile)))]

\* OrthogonalTileAreaT::ClampToMap()
OrthClampToMap(m, ta) ==
    [ta EXCEPT !.w = min(ta.w, ToUint(MapSizeX(m) - TileX(m, ta.tile))),
               !.h = min(ta.h, ToUint(MapSizeY(m) - TileY(m, ta.tile)))]

-----------------------------------------------------------------------------
(* SpecOrth, SpecOrthQ, SpecOrthP: one OrthogonalTileAreaT, from its construction on *)

OrthMap == [size_x |-> OrthMapX, size_y |-> OrthMapY]

\* history: the bounding box of a set of tiles after one more tile
BoxWith(m, box, t) ==
    IF box = <<>>
    THEN [sx |-> TileX(m, t), sy |-> TileY(m, t), ex |-> TileX(m, t), ey |-> TileY(m, t)]
    ELSE [sx |-> min(box.sx, TileX(m, t)), sy |-> min(box.sy, TileY(m, t)),
          ex |-> max(box.ex, TileX(m, t)), ey |-> max(box.ey, TileY(m, t))]

InitOrth ==
    /\ map = OrthMap
    /\ area = OrthogonalTileAreaEmpty
    /\ okind = "none"
    /\ obox = <<>>
    /\ ocall = NoCall
    /\ IdleDArea
    /\ IdleDiag
    /\ IdleTrans
    /\ IdleClip

OrthUnchanged ==
    /\ UNCHANGED <<map, darea, dcorners, dcall, diter, yielded, titer, tghost>>
    /\ ClipUnchanged

\* TileArea ta(start, end)
OrthConstruct ==
    /\ okind = "none"
    /\ \E start \in Tiles(map), end \in Tiles(map) :
          /\ area' = OrthogonalTileAreaT(map, start, end)
          /\ obox' = BoxWith(map, BoxWith(map, <<>>, start), end)
          /\ ocall' = [op |-> "Construct", start |-> start, end |-> end]
    /\ okind' = "corners"
    /\ OrthUnchanged

\* TileArea ta: the empty area with an invalid tile
OrthConstructEmpty ==
    /\ okind = "none"
    /\ area' = OrthogonalTileAreaEmpty
    /\ obox' = <<>>
    /\ ocall' = [op |-> "ConstructEmpty"]
    /\ okind' = "empty"
    /\ OrthUnchanged

\* TileArea ta(tile, w, h) with a tile of the map and w <= maxw, h <= maxh;
\* w and h are both zero or both non-zero
OrthConstructRaw(maxw, maxh) ==
    /\ okind = "none"
    /\ \E tile \in Tiles(map), w \in 0 .. maxw, h \in 0 .. maxh :
          /\ (w = 0) <=> (h = 0)
          /\ area' = OrthogonalTileAreaRaw(tile, w, h)
          /\ ocall' = [op |-> "ConstructRaw", tile |-> tile, w |-> w, h |-> h]
    /\ obox' = <<>>
    /\ okind' = "raw"
    /\ OrthUnchanged

\* ta.Add(to_add) with a tile of the map
OrthAddCall ==
    /\ okind # "none"
    /\ \E to_add \in Tiles(map) :
          /\ area' = OrthAdd(map, area, to_add)
          /\ obox' = IF okind = "raw" THEN <<>> ELSE BoxWith(map, obox, to_add)
          /\ ocall' = [op |-> "Add", arg |-> to_add, pre |-> area]
    /\ UNCHANGED okind
    /\ OrthUnchanged

\* ta.Contains(tile) with a tile of the map; a call whose assertion fails
\* aborts the program
OrthContainsCall ==
    /\ okind # "none"
    /\ OrthContainsAsserts(area)
    /\ \E tile \in Tiles(map) :
          ocall' = [op |-> "Contains", arg |-> tile, pre |-> area,
                    ret |-> OrthContains(map, area, tile),
                    asserts |-> OrthContainsAssertsMet(area)]
    /\ UNCHANGED <<area, okind, obox>>
    /\ OrthUnchanged

\* SpecOrth: construction and the calls that change the area
NextOrth ==
    \/ OrthConstruct
    \/ OrthConstructEmpty
    \/ OrthConstructRaw(MaxRawExtent, MaxRawExtent)
    \/ OrthAddCall

SpecOrth == InitOrth /\ [][NextOrth]_vars

\* ta.ClampToMap(); the call asserts that the area's tile is valid
OrthClampToMapCall ==
    /\ okind # "none"
    /\ IsValidTileIndex(map, area.tile)
    /\ area' = OrthClampToMap(map, area)
    /\ ocall' = [op |-> "ClampToMap", pre |-> area]
    /\ UNCHANGED <<okind, obox>>
    /\ OrthUnchanged

\* SpecOrthQ: construction, ClampToMap and Contains(tile)
NextOrthQ ==
    \/ OrthConstruct
    \/ OrthConstructEmpty
    \/ OrthConstructRaw(OrthMapX, OrthMapY)
    \/ OrthContainsCall
    \/ OrthClampToMapCall

SpecOrthQ == InitOrth /\ [][NextOrthQ]_vars

\* the areas passed to Intersects(ta) and Contains(ta): the empty area and
\* every area OrthogonalTileAreaT(tile, w, h) builds on the map
OrthArgAreas(m) ==
    {OrthogonalTileAreaEmpty} \cup
    {OrthogonalTileAreaRaw(tile, w, h) :
        tile \in Tiles(m),
        w \in 0 .. MapSizeX(m),
        h \in 0 .. MapSizeY(m)}

OrthWellFormed(ta) == (ta.w = 0) <=> (ta.h = 0)

PairMap == [size_x |-> PairMapX, size_y |-> PairMapY]

InitOrthP ==
    /\ map = PairMap
    /\ area = OrthogonalTileAreaEmpty
    /\ okind = "none"
    /\ obox = <<>>
    /\ ocall = NoCall
    /\ IdleDArea
    /\ IdleDiag
    /\ IdleTrans
    /\ IdleClip

\* area.Intersects(ta); the result is the one of a build without assertions
OrthIntersectsCall ==
    /\ okind # "none"
    /\ \E ta \in OrthArgAreas(map) :
          /\ OrthWellFormed(ta)
          /\ ocall' = [op |-> "Intersects", arg |-> ta, pre |-> area,
                       ret |-> OrthIntersects(map, area, ta),
                       asserts |-> OrthPairAssertsMet(area, ta)]
    /\ UNCHANGED <<area, okind, obox>>
    /\ OrthUnchanged

\* area.Contains(ta); the result is the one of a build without assertions
OrthContainsAreaCall ==
    /\ okind # "none"
    /\ \E ta \in OrthArgAreas(map) :
          /\ OrthWellFormed(ta)
          /\ ocall' = [op |-> "ContainsArea", arg |-> ta, pre |-> area,
                       ret |-> OrthContainsArea(map, area, ta),
                       asserts |-> OrthPairAssertsMet(area, ta)]
    /\ UNCHANGED <<area, okind, obox>>
    /\ OrthUnchanged

\* SpecOrthP: construction and the const member functions, on a small map
NextOrthP ==
    \/ OrthConstruct
    \/ OrthConstructEmpty
    \/ OrthConstructRaw(PairMapX, PairMapY)
    \/ OrthContainsCall
    \/ OrthIntersectsCall
    \/ OrthContainsAreaCall

SpecOrthP == InitOrthP /\ [][NextOrthP]_vars

-----------------------------------------------------------------------------
(* Properties of the orthogonal area *)

\* C5: OrthogonalArea(s, e) has origin (min x, min y), width |dx| + 1 and
\* height |dy| + 1, contains s and e, and equals OrthogonalArea(e, s)
C5_ConstructNormalizes ==
    ocall.op = "Construct" =>
        LET s  == ocall.start
            e  == ocall.end
            sx == TileX(map, s)
            sy == TileY(map, s)
            ex == TileX(map, e)
            ey == TileY(map, e)
        IN  /\ TileX(map, area.tile) = min(sx, ex)
            /\ TileY(map, area.tile) = min(sy, ey)
            /\ area.w = abs(sx - ex) + 1
            /\ area.h = abs(sy - ey) + 1
            /\ OrthContains(map, area, s)
            /\ OrthContains(map, area, e)
            /\ area = OrthogonalTileAreaT(map, e, s)

\* an area built from a start corner east and north of the end corner
C5_Witness ==
    /\ ocall.op = "Construct"
    /\ TileX(map, ocall.start) > TileX(map, ocall.end)
    /\ TileY(map, ocall.start) < TileY(map, ocall.end)

\* C6 as stated: Add(t) on any area of width 0 leaves origin t, width 1 and
\* height 1, and Add((2,6)) on the 1x1 area at (4,4) gives origin (2,4), 3x3
C6_AsStated ==
    /\ (ocall.op = "Add" /\ ocall.pre.w = 0) =>
           area = [tile |-> ocall.arg, w |-> 1, h |-> 1]
    /\ ( /\ ocall.op = "Add"
         /\ ocall.pre = [tile |-> TileXY(4, 4, map), w |-> 1, h |-> 1]
         /\ ocall.arg = TileXY(2, 6, map) ) =>
           area = [tile |-> TileXY(2, 4, map), w |-> 3, h |-> 3]

\* the area a bounding box stands for
BoxArea(m, box) ==
    IF box = <<>> THEN OrthogonalTileAreaEmpty
    ELSE [tile |-> TileXY(box.sx, box.sy, m),
          w    |-> box.ex - box.sx + 1,
          h    |-> box.ey - box.sy + 1]

\* C7: an area built from two corners or empty with an invalid tile is, after
\* any sequence of Add calls, the bounding box of its corners and the tiles
\* added; each Add(t) makes t contained, keeps every contained tile contained
\* and never decreases width or height
C7_AddKeepsBoundingBox ==
    okind \in {"corners", "empty"} =>
        /\ area = BoxArea(map, obox)
        /\ ocall.op = "Add" =>
              /\ OrthContains(map, area, ocall.arg)
              /\ \A t \in Tiles(map) :
                    OrthContains(map, ocall.pre, t) => OrthContains(map, area, t)
              /\ area.w >= ocall.pre.w
              /\ area.h >= ocall.pre.h

\* an Add that moved the origin of a non-empty area and grew both extents
C7_Witness ==
    /\ okind = "empty"
    /\ ocall.op = "Add"
    /\ ocall.pre.w >= 1
    /\ area.tile # ocall.pre.tile
    /\ area.w > ocall.pre.w
    /\ area.h > ocall.pre.h

\* the area of C8's scenario: origin (2,3), width 4, height 1
C8_Area == [tile |-> TileXY(2, 3, map), w |-> 4, h |-> 1]

\* C8: Contains(t) of a non-empty area is true exactly when t lies in
\* [origin.x, origin.x + w) x [origin.y, origin.y + h); the corners (2,3) and
\* (5,3) give origin (2,3), w = 4, h = 1, which contains (5,3) and not (6,3)
C8_ContainsIsHalfOpenBox ==
    /\ (ocall.op = "Contains" /\ area.w # 0) =>
          LET ox == TileX(map, area.tile)
              oy == TileY(map, area.tile)
              tx == TileX(map, ocall.arg)
              ty == TileY(map, ocall.arg)
          IN  ocall.ret <=> ( /\ ox <= tx /\ tx < ox + area.w
                              /\ oy <= ty /\ ty < oy + area.h )
    /\ ( /\ ocall.op = "Construct"
         /\ ocall.start = TileXY(2, 3, map)
         /\ ocall.end = TileXY(5, 3, map) ) => area = C8_Area
    /\ (ocall.op = "Contains" /\ area = C8_Area /\ ocall.arg = TileXY(5, 3, map)) =>
          ocall.ret
    /\ (ocall.op = "Contains" /\ area = C8_Area /\ ocall.arg = TileXY(6, 3, map)) =>
          ~ocall.ret

\* Contains((6,3)) was called on the area built from two corners that is C8's
\* area, and returned false
C8_Witness ==
    /\ okind = "corners"
    /\ ocall.op = "Contains"
    /\ area = C8_Area
    /\ ocall.arg = TileXY(6, 3, map)
    /\ ~ocall.ret

\* C11: A.Intersects(B) returns what B.Intersects(A) returns, and when both
\* areas are non-empty and A.Contains(B) returns true, A.Intersects(B) is true
C11_IntersectsSymmetric ==
    /\ ocall.op = "Intersects" =>
          ocall.ret = OrthIntersects(map, ocall.arg, ocall.pre)
    /\ (/\ ocall.op = "ContainsArea"
        /\ ocall.pre.w # 0
        /\ ocall.arg.w # 0
        /\ ocall.ret) => OrthIntersects(map, ocall.pre, ocall.arg)

\* Intersects returned true for two areas that overlap in part: neither
\* contains the other
C11_Witness ==
    /\ ocall.op = "Intersects"
    /\ ocall.ret
    /\ ~OrthContainsArea(map, ocall.pre, ocall.arg)
    /\ ~OrthContainsArea(map, ocall.arg, ocall.pre)

\* C12: Contains(tile), Contains(area) and Intersects(area) return false when
\* the receiver or the argument area has width 0, and return before any of
\* their assertions is evaluated
C12_EmptyBeforeAsserts ==
    /\ (ocall.op = "Contains" /\ ocall.pre.w = 0) =>
          ~ocall.ret /\ ocall.asserts = "skipped"
    /\ (/\ ocall.op \in {"ContainsArea", "Intersects"}
        /\ (ocall.pre.w = 0 \/ ocall.arg.w = 0)) =>
          ~ocall.ret /\ ocall.asserts = "skipped"

\* Intersects was called on a non-empty area with an empty argument
C12_Witness ==
    /\ ocall.op = "Intersects"
    /\ ocall.pre.w # 0
    /\ ocall.arg.w = 0
    /\ ~ocall.ret
    /\ ocall.asserts = "skipped"

\* C13: ClampToMap on an area with a valid tile keeps the tile, sets the width
\* to min(width, MapSizeX - x) and the height to min(height, MapSizeY - y), so
\* the area ends within the map; neither extent grows, a non-empty area stays
\* non-empty and a second ClampToMap changes nothing
C13_ClampToMap ==
    ocall.op = "ClampToMap" =>
        LET x == TileX(map, ocall.pre.tile)
            y == TileY(map, ocall.pre.tile)
        IN  /\ area.tile = ocall.pre.tile
            /\ area.w = min(ocall.pre.w, MapSizeX(map) - x)
            /\ area.h = min(ocall.pre.h, MapSizeY(map) - y)
            /\ x + area.w <= MapSizeX(map)
            /\ y + area.h <= MapSizeY(map)
            /\ area.w <= ocall.pre.w
            /\ area.h <= ocall.pre.h
            /\ (ocall.pre.w # 0 /\ ocall.pre.h # 0) => (area.w # 0 /\ area.h # 0)
            /\ OrthClampToMap(map, area) = area

\* ClampToMap cut both extents of an area that reached over the map's border
C13_Witness ==
    /\ ocall.op = "ClampToMap"
    /\ area.w >= 1
    /\ area.w < ocall.pre.w
    /\ area.h < ocall.pre.h

\* C14: Add(t) on an area that contains t leaves tile, width and height as
\* they are, and Contains(t) is true before and after
C14_AddContainedIsNoOp ==
    (ocall.op = "Add" /\ OrthContains(map, ocall.pre, ocall.arg)) =>
        /\ area = ocall.pre
        /\ OrthContains(map, area, ocall.arg)

\* Add was called with a contained tile that is not the area's origin nor in
\* its first row or column
C14_Witness ==
    /\ ocall.op = "Add"
    /\ OrthContains(map, ocall.pre, ocall.arg)
    /\ TileX(map, ocall.arg) > TileX(map, ocall.pre.tile)
    /\ TileY(map, ocall.arg) > TileY(map, ocall.pre.tile)
    /\ area = ocall.pre

-----------------------------------------------------------------------------
(* Directions and their transformations *)

DIAGDIR_NE == 0

DIAGDIR_SE == 1

DIAGDIR_SW == 2

DIAGDIR_NW == 3

\* the eight transformations: a rotation by rot quarter turns, after a
\* reflection when refl is set
DirTransformations == [rot : 0 .. 3, refl : BOOLEAN]

DTR_IDENTITY == [rot |-> 0, refl |-> FALSE]

\* TransformDiagDir(diagdir, transformation)
TransformDiagDir(d, t) == ((IF t.refl THEN 3 - d ELSE d) + t.rot) % 4

\* TileIndexDiffCByDiagDir(diagdir)
TileIndexDiffCByDiagDir(d) ==
    CASE d = DIAGDIR_NE -> [x |-> -1, y |-> 0]
      [] d = DIAGDIR_SE -> [x |-> 0, y |-> 1]
      [] d = DIAGDIR_SW -> [x |-> 1, y |-> 0]
      [] d = DIAGDIR_NW -> [x |-> 0, y |-> -1]

\* ToTileIndexDiff(tidc, map)
ToTileIndexDiff(tidc, m) == tidc.y * MapSizeX(m) + tidc.x

\* TileDiffXY(x, y, map)
TileDiffXY(x, y, m) == y * MapSizeX(m) + x

-----------------------------------------------------------------------------
(* TransformationTileIteratorController *)

\* OrthogonalTileIteratorController::Init(my_index, w, h): the column and row
\* counters start at w and h
OrthIterInit(it, w, h) == [it EXCEPT !.w = w, !.x = w, !.y = h]

\* TransformationTileIteratorController::Init(src_index, dst_index, src_w, src_h,
\* transformation)
TransInit(it, src_w, src_h, transformation) ==
    [OrthIterInit(it, src_w, src_h) EXCEPT !.transformation = transformation]

\* the linear-index offset of a transformed direction on the destination map
TransDelta(it, d) ==
    ToTileIndexDiff(TileIndexDiffCByDiagDir(TransformDiagDir(d, it.transformation)),
                    it.dst_map)

\* Advance that takes the destination steps on the source map
TransAdvanceSrcMapDiff(it) ==
    LET delta(d) ==
            ToTileIndexDiff(TileIndexDiffCByDiagDir(TransformDiagDir(d, it.transformation)),
                            it.src_map)
    IN  IF it.x - 1 > 0
        THEN [it EXCEPT !.x = it.x - 1,
                        !.src_index = ToUint(it.src_index + 1),
                        !.dst_index = ToUint(it.dst_index + delta(DIAGDIR_SW))]
        ELSE IF it.y - 1 > 0
        THEN [it EXCEPT !.x = it.w,
                        !.y = it.y - 1,
                        !.src_index = ToUint(it.src_index + TileDiffXY(1, 1, it.src_map) - it.w),
                        !.dst_index = ToUint(it.dst_index
                                             - delta(DIAGDIR_SW) * (it.w - 1)
                                             + delta(DIAGDIR_SE))]
        ELSE [it EXCEPT !.x = it.x - 1,
                        !.y = it.y - 1,
                        !.src_index = INVALID_TILE_INDEX,
                        !.dst_index = INVALID_TILE_INDEX]

\* Advance that undoes w instead of w - 1 steps at the end of a row
TransAdvanceUndoW(it) ==
    IF it.x - 1 > 0
    THEN [it EXCEPT !.x = it.x - 1,
                    !.src_index = ToUint(it.src_index + 1),
                    !.dst_index = ToUint(it.dst_index + TransDelta(it, DIAGDIR_SW))]
    ELSE IF it.y - 1 > 0
    THEN [it EXCEPT !.x = it.w,
                    !.y = it.y - 1,
                    !.src_index = ToUint(it.src_index + TileDiffXY(1, 1, it.src_map) - it.w),
                    !.dst_index = ToUint(it.dst_index
                                         - TransDelta(it, DIAGDIR_SW) * it.w
                                         + TransDelta(it, DIAGDIR_SE))]
    ELSE [it EXCEPT !.x = it.x - 1,
                    !.y = it.y - 1,
                    !.src_index = INVALID_TILE_INDEX,
                    !.dst_index = INVALID_TILE_INDEX]

\* Advance that ends the iteration on the source index only
TransAdvanceSrcOnly(it) ==
    IF it.x - 1 > 0
    THEN [it EXCEPT !.x = it.x - 1,
                    !.src_index = ToUint(it.src_index + 1),
                    !.dst_index = ToUint(it.dst_index + TransDelta(it, DIAGDIR_SW))]
    ELSE IF it.y - 1 > 0
    THEN [it EXCEPT !.x = it.w,
                    !.y = it.y - 1,
                    !.src_index = ToUint(it.src_index + TileDiffXY(1, 1, it.src_map) - it.w),
                    !.dst_index = ToUint(it.dst_index
                                         - TransDelta(it, DIAGDIR_SW) * (it.w - 1)
                                         + TransDelta(it, DIAGDIR_SE))]
    ELSE [it EXCEPT !.x = it.x - 1,
                    !.y = it.y - 1,
                    !.src_index = INVALID_TILE_INDEX]

\* TransformationTileIteratorController::Advance(src_index, src_map, dst_index,
\* dst_map)
TransAdvance(it) ==
    IF it.x - 1 > 0
    THEN [it EXCEPT !.x = it.x - 1,
                    !.src_index = ToUint(it.src_index + 1),
                    !.dst_index = ToUint(it.dst_index + TransDelta(it, DIAGDIR_SW))]
    ELSE IF it.y - 1 > 0
    THEN [it EXCEPT !.x = it.w,
                    !.y = it.y - 1,
                    !.src_index = ToUint(it.src_index + TileDiffXY(1, 1, it.src_map) - it.w),
                    !.dst_index = ToUint(it.dst_index
                                         - TransDelta(it, DIAGDIR_SW) * (it.w - 1)
                                         + TransDelta(it, DIAGDIR_SE))]
    ELSE [it EXCEPT !.x = it.x - 1,
                    !.y = it.y - 1,
                    !.src_index = INVALID_TILE_INDEX,
                    !.dst_index = INVALID_TILE_INDEX]

-----------------------------------------------------------------------------
(* SpecTrans: a transformation iterator from a source area to its transformed *)
(* copy on a destination map                                                 *)

\* the w x h tiles reached from tile t by i steps along direction d1 and j
\* steps along direction d2 all lie on map m
StepsFit(m, t, w, h, d1, d2) ==
    \A i \in 0 .. (w - 1), j \in 0 .. (h - 1) :
        LET v1 == TileIndexDiffCByDiagDir(d1)
            v2 == TileIndexDiffCByDiagDir(d2)
            x  == TileX(m, t) + i * v1.x + j * v2.x
            y  == TileY(m, t) + i * v1.y + j * v2.y
        IN  0 <= x /\ x < MapSizeX(m) /\ 0 <= y /\ y < MapSizeY(m)

\* Init is called with the source index on the northern tile of a source area
\* of w x h tiles and the destination index on the transformed northern tile
\* of that area, the transformed area lying on the destination map
InitTrans ==
    /\ \E sm \in Maps(MaxSrcMap), dm \in Maps(MaxDstMap), t \in DirTransformations :
          \E w \in 1 .. MapSizeX(sm), h \in 1 .. MapSizeY(sm) :
             \E src \in Tiles(sm), dst \in Tiles(dm) :
                /\ StepsFit(sm, src, w, h, DIAGDIR_SW, DIAGDIR_SE)
                /\ StepsFit(dm, dst, w, h, TransformDiagDir(DIAGDIR_SW, t),
                            TransformDiagDir(DIAGDIR_SE, t))
                /\ titer = TransInit([src_index |-> src, dst_index |-> dst,
                                      src_map |-> sm, dst_map |-> dm,
                                      x |-> 0, y |-> 0, w |-> 0,
                                      transformation |-> DTR_IDENTITY], w, h, t)
                /\ tghost = [src0 |-> src, dst0 |-> dst, h |-> h, calls |-> 0]
    /\ map = NoMap
    /\ IdleOrth
    /\ IdleDArea
    /\ IdleDiag
    /\ IdleClip

\* ++iterator: Advance is called while the source index is not the sentinel
TransIterNext ==
    /\ titer.src_index # INVALID_TILE_INDEX
    /\ titer' = TransAdvance(titer)
    /\ tghost' = [tghost EXCEPT !.calls = tghost.calls + 1]
    /\ UNCHANGED <<map, area, okind, obox, ocall, darea, dcorners, dcall, diter, yielded>>
    /\ ClipUnchanged

NextTrans == TransIterNext

SpecTrans == InitTrans /\ [][NextTrans]_vars

-----------------------------------------------------------------------------
(* Properties of the transformation iterator *)

\* C3: the k-th pair (k = j * w + i) has the source tile at origin + (i, j)
\* and the destination index at the initial one + i * delta(T(SW)) +
\* j * delta(T(SE)); the sentinel comes after exactly w * h pairs
C3_TransPairs ==
    LET k == tghost.calls
        i == k % titer.w
        j == k \div titer.w
    IN  /\ titer.src_index = INVALID_TILE_INDEX <=> k = titer.w * tghost.h
        /\ titer.src_index # INVALID_TILE_INDEX =>
              /\ i < titer.w /\ j < tghost.h
              /\ TileX(titer.src_map, titer.src_index)
                    = TileX(titer.src_map, tghost.src0) + i
              /\ TileY(titer.src_map, titer.src_index)
                    = TileY(titer.src_map, tghost.src0) + j
              /\ titer.dst_index = tghost.dst0 + i * TransDelta(titer, DIAGDIR_SW)
                                               + j * TransDelta(titer, DIAGDIR_SE)

\* the iterator stands in the second row or later of a source area at least
\* 2 x 2, under a reflection with a rotation, on maps of different widths
C3_Witness ==
    /\ titer.src_index # INVALID_TILE_INDEX
    /\ titer.w >= 2
    /\ tghost.calls > titer.w
    /\ titer.transformation.refl
    /\ titer.transformation.rot = 1
    /\ MapSizeX(titer.src_map) # MapSizeX(titer.dst_map)

C15_IdentityKeepsOffset ==
    (titer.transformation = DTR_IDENTITY /\ titer.src_index # INVALID_TILE_INDEX) =>
        /\ TileX(titer.dst_map, titer.dst_index) - TileX(titer.src_map, titer.src_index)
              = TileX(titer.dst_map, tghost.dst0) - TileX(titer.src_map, tghost.src0)
        /\ TileY(titer.dst_map, titer.dst_index) - TileY(titer.src_map, titer.src_index)
              = TileY(titer.dst_map, tghost.dst0) - TileY(titer.src_map, tghost.src0)

\* the identity iteration stands in the second row or later of an area at
\* least 2 tiles wide, between maps of different widths and with an offset
\* that is not zero
C15_Witness ==
    /\ titer.transformation = DTR_IDENTITY
    /\ titer.src_index # INVALID_TILE_INDEX
    /\ titer.w >= 2
    /\ tghost.calls > titer.w
    /\ MapSizeX(titer.src_map) # MapSizeX(titer.dst_map)
    /\ TileX(titer.dst_map, tghost.dst0) # TileX(titer.src_map, tghost.src0)

-----------------------------------------------------------------------------
(* The clipboard (clipboard.cpp): buffers, station lists, the builder *)

NULL == 0

INVALID_STATION == 65535

\* tile types: a zero-initialised tile has type 0, MP_CLEAR
MP_CLEAR == 0

MP_VOID == 7

MapMaxX(m) == MapSizeX(m) - 1

MapMaxY(m) == MapSizeY(m) - 1

\* the indices GetClipboardBuffer accepts
ClipboardBufferIndexes == 0 .. (ClipBuffers - 1)

StationIDs == 0 .. MaxStationID

StationPointers == 1 .. MaxStations

\* the smallest content size AllocateClipboardBuffer accepts
MinContentSize == 1

\* an array that is not allocated, and CallocT<T>(n): n zero-initialised items
NullArray == [alloc |-> FALSE, t |-> <<>>]

CallocT(n) == [alloc |-> TRUE, t |-> [i \in 1 .. n |-> 0]]

\* a Map of static storage: all zero
ZeroMap == [size_x |-> 0, size_y |-> 0, size |-> 0, m |-> NullArray, me |-> NullArray]

AT_INVALID == 254

STAT_CLASS_DFLT == 0

STAT_CLASS_WAYP == 1

\* the airport of a station that has none
NoAirport ==
    [tile |-> INVALID_TILE_INDEX, w |-> 0, h |-> 0, type |-> AT_INVALID, layout |-> 0]

\* memory no ClipboardStation was constructed in yet
NoStation ==
    [state |-> "unused", id |-> INVALID_STATION, next |-> NULL, frees |-> 0,
     airport |-> NoAirport, speclist |-> <<>>]

\* new ClipboardStation: what the constructor sets; speclist has num_specs
\* items
NewStation ==
    [state |-> "live", id |-> INVALID_STATION, next |-> NULL, frees |-> 0,
     airport |-> NoAirport, speclist |-> <<>>]

\* delete item: the object is gone, what its memory holds is not read again
\* by a list that owns its items
DeleteStation(st) ==
    [state |-> "freed", id |-> INVALID_STATION, next |-> NULL, frees |-> st.frees + 1,
     airport |-> NoAirport, speclist |-> <<>>]

\* the items of the list starting at item, in order; next always points to
\* an object created later, so the walk ends
RECURSIVE ListItems(_, _)
ListItems(h, item) ==
    IF item = NULL THEN <<>>
    ELSE <<item>> \o ListItems(h, h[item].next)

\* FreeClipboardStationList(&list): the heap after every item was deleted
FreeClipboardStationList(h, list) ==
    LET items == ListItems(h, list)
    IN  [p \in DOMAIN h |->
            IF \E i \in DOMAIN items : items[i] = p
            THEN DeleteStation(h[p])
            ELSE h[p]]

\* ClipboardStation::Get(id, buffer) on the list of that buffer
RECURSIVE ClipboardStationGetFrom(_, _, _)
ClipboardStationGetFrom(h, ret, id) ==
    IF ret = NULL THEN NULL
    ELSE IF h[ret].id = id THEN ret
    ELSE ClipboardStationGetFrom(h, h[ret].next, id)

ClipboardStationGet(h, stations, id, buffer) ==
    ClipboardStationGetFrom(h, stations[buffer], id)

\* IsClipboardBufferEmpty(buffer): buffer->m == NULL
IsClipboardBufferEmpty(buffer) == ~buffer.m.alloc

\* SetClipboardStationList(list, buffer): the list the buffer had is freed
SetClipboardStationList(h, stations, list, buffer) ==
    [heap     |-> FreeClipboardStationList(h, stations[buffer]),
     stations |-> [stations EXCEPT ![buffer] = list]]

\* a clipboard buffer is not the main map
IsMainMapTile(m, tile) == FALSE

\* IsInnerTile(tile), whatever the setting freeform_edges is
IsInnerTile(m, tile) ==
    LET x == TileX(m, tile)
        y == TileY(m, tile)
    IN  /\ x < MapMaxX(m)
        /\ y < MapMaxY(m)
        /\ ((x > 0 /\ y > 0) \/ ~IsMainMapTile(m, tile))

\* the assertions of SetTileType(tile, type)
SetTileTypeAsserts(m, tile, type) ==
    /\ IsValidTileIndex(m, tile)
    /\ IsInnerTile(m, tile) = (type # MP_VOID)

\* GENERIC_TILE_AREA_LOOP: the tiles of an area in the order of the
\* orthogonal iterator, row by row
OrthAreaTiles(m, ta) ==
    [i \in 1 .. (ta.w * ta.h) |->
        ta.tile + TileDiffXY((i - 1) % ta.w, (i - 1) \div ta.w, m)]

\* the areas with the second one as wide as the buffer
AllocateVoidAreasFullRow(buffer) ==
    <<OrthogonalTileAreaRaw(TileXY(buffer.size_x - 1, 0, buffer), 1, buffer.size_y),
      OrthogonalTileAreaRaw(TileXY(0, buffer.size_y - 1, buffer), buffer.size_x, 1)>>

\* the areas of the two loops of AllocateClipboardBuffer
AllocateVoidAreas(buffer) ==
    <<OrthogonalTileAreaRaw(TileXY(buffer.size_x - 1, 0, buffer), 1, buffer.size_y),
      OrthogonalTileAreaRaw(TileXY(0, buffer.size_y - 1, buffer), buffer.size_x - 1, 1)>>

\* the tiles the two loops call MakeVoid on, in order
AllocateVoidTiles(buffer) ==
    OrthAreaTiles(buffer, AllocateVoidAreas(buffer)[1])
        \o OrthAreaTiles(buffer, AllocateVoidAreas(buffer)[2])

\* MakeVoid(tile) on each of the tiles: the type array after it
MakeVoidAll(buffer, tiles) ==
    [buffer EXCEPT !.m.t = [i \in DOMAIN buffer.m.t |->
        IF \E k \in DOMAIN tiles : tiles[k] = i - 1 THEN MP_VOID ELSE buffer.m.t[i]]]

\* AllocateClipboardBuffer(buffer, content_size_x, content_size_y), the buffer
AllocateClipboardBuffer(content_size_x, content_size_y) ==
    LET size_x == ToUint(content_size_x + 1)
        size_y == ToUint(content_size_y + 1)
        size   == ToUint(size_x * size_y)
        fresh  == [size_x |-> size_x, size_y |-> size_y, size |-> size,
                   m |-> CallocT(size), me |-> CallocT(size)]
    IN  MakeVoidAll(fresh, AllocateVoidTiles(fresh))

\* EmptyClipboardBuffer that leaves size as it is
EmptyClipboardBufferKeepSize(buffer) ==
    [buffer EXCEPT !.size_x = 0, !.size_y = 0, !.m = NullArray, !.me = NullArray]

\* EmptyClipboardBuffer(buffer) past the early return, the buffer
EmptyClipboardBuffer(buffer) ==
    [buffer EXCEPT !.size_x = 0, !.size_y = 0, !.size = 0,
                   !.m = NullArray, !.me = NullArray]

\* what a link of a builder's list points to: link NULL is &this->stations,
\* link p is &p->next
StationLink(h, stations, link) == IF link = NULL THEN stations ELSE h[link].next

\* the loop of FindStation, from a link on
RECURSIVE FindStationFrom(_, _, _, _)
FindStationFrom(h, stations, ret, sid) ==
    LET st == StationLink(h, stations, ret)
    IN  IF st = NULL THEN ret
        ELSE IF h[st].id = sid THEN ret
        ELSE FindStationFrom(h, stations, st, sid)

\* ClipboardStationsBuilder::FindStation(sid): the link to the station with
\* that id, or the link at the back of the list
FindStation(h, stations, sid) == FindStationFrom(h, stations, NULL, sid)

\* memory for one more ClipboardStation is left
CanAllocateStation(h) == \E p \in DOMAIN h : h[p].state = "unused"

\* where new ClipboardStation puts the object
AllocateStation(h) == CHOOSE p \in DOMAIN h :
    h[p].state = "unused" /\ \A q \in DOMAIN h : h[q].state = "unused" => p <= q

\* AddStation putting a new station at the front of the list
AddStationAtFront(h, stations, sid) ==
    LET st_link == FindStation(h, stations, sid)
        st      == StationLink(h, stations, st_link)
    IN  IF st # NULL THEN [heap |-> h, stations |-> stations, st |-> st]
        ELSE LET new == AllocateStation(h)
             IN  [heap |-> [h EXCEPT ![new] = [NewStation EXCEPT !.id = sid,
                                                                  !.next = stations]],
                  stations |-> new, st |-> new]

\* ClipboardStationsBuilder::AddStation(sid): the heap, the builder's list
\* and the station returned
AddStation(h, stations, sid) ==
    LET st_link == FindStation(h, stations, sid)
        st      == StationLink(h, stations, st_link)
    IN  IF st # NULL THEN [heap |-> h, stations |-> stations, st |-> st]
        ELSE LET new == AllocateStation(h)
                 h1  == [h EXCEPT ![new] = [NewStation EXCEPT !.id = sid]]
             IN  IF st_link = NULL
                 THEN [heap |-> h1, stations |-> new, st |-> new]
                 ELSE [heap |-> [h1 EXCEPT ![st_link].next = new],
                       stations |-> stations, st |-> new]

\* the station classes and types AddRailPart is called with
StationClasses == {STAT_CLASS_DFLT, STAT_CLASS_WAYP}

StationTypes == {0}

\* an "empty" placeholder of a speclist
SpecPlaceholder == [stat_class |-> STAT_CLASS_DFLT, stat_type |-> 0]

\* the assertions of AddSpecToStation; speclist[i] is item i + 1
AddSpecAsserts(st, station_class, station_type, specindex) ==
    /\ specindex # 0 \/ (station_type = 0 /\ station_class \in {STAT_CLASS_DFLT, STAT_CLASS_WAYP})
    /\ specindex < Len(st.speclist) =>
          \/ st.speclist[specindex + 1] =
                [stat_class |-> station_class, stat_type |-> station_type]
          \/ st.speclist[specindex + 1] = SpecPlaceholder

\* ClipboardStationsBuilder::AddSpecToStation(st, station_class, station_type,
\* specindex): the station after it
AddSpecToStation(st, station_class, station_type, specindex) ==
    LET grown == IF specindex >= Len(st.speclist)
                 THEN [i \in 1 .. (specindex + 1) |->
                          IF i <= Len(st.speclist) THEN st.speclist[i] ELSE SpecPlaceholder]
                 ELSE st.speclist
    IN  [st EXCEPT !.speclist = [grown EXCEPT ![specindex + 1] =
            [stat_class |-> station_class, stat_type |-> station_type]]]

\* what AirportSpec::Get(type) may return: the size of the airport, here a
\* square one, and whether rotation[layout] is DIR_E or DIR_W
AirportSpecs == [size_x : {1}, size_y : {1}, rotated : BOOLEAN]

\* ClipboardStationsBuilder::AddAirportPart(sid, tile, type, layout) past
\* AddStation: the station after it
AddAirportPart(st, tile, type, layout, spec) ==
    [st EXCEPT !.airport =
        [tile   |-> tile,
         w      |-> IF ~spec.rotated THEN spec.size_x ELSE spec.size_y,
         h      |-> IF ~spec.rotated THEN spec.size_y ELSE spec.size_x,
         type   |-> type,
         layout |-> layout]]

-----------------------------------------------------------------------------
(* SpecClip, SpecClipA: the clipboard buffers and one ClipboardStationsBuilder *)
(* at a time. SpecClip works on every buffer, with the smallest content;      *)
(* SpecClipA works on buffer 0, with every content size; SpecBuild works on   *)
(* the builder alone, with every call that adds a part                        *)

InitClip ==
    /\ clipboard_buffers = [b \in ClipboardBufferIndexes |-> ZeroMap]
    /\ clipboard_stations = [b \in ClipboardBufferIndexes |-> NULL]
    /\ heap = [p \in StationPointers |-> NoStation]
    /\ builder = [alive |-> FALSE, stations |-> NULL, added |-> <<>>]
    /\ ccall = NoCall
    /\ map = NoMap
    /\ IdleOrth
    /\ IdleDArea
    /\ IdleDiag
    /\ IdleTrans

ClipOthersUnchanged ==
    UNCHANGED <<map, area, okind, obox, ocall, darea, dcorners, dcall, diter, yielded,
                titer, tghost>>

\* AllocateClipboardBuffer(GetClipboardBuffer(b), cx, cy); the call record
\* keeps the stations the buffer had, the tiles made void and whether
\* SetTileType's assertions held
ClipAllocate(indexes, sizes) ==
    \E b \in indexes, cx \in sizes, cy \in sizes :
        LET set == SetClipboardStationList(heap, clipboard_stations, NULL, b)
            new == AllocateClipboardBuffer(cx, cy)
        IN  /\ heap' = set.heap
            /\ clipboard_stations' = set.stations
            /\ clipboard_buffers' = [clipboard_buffers EXCEPT ![b] = new]
            /\ ccall' = [op |-> "Allocate", buffer |-> b, cx |-> cx, cy |-> cy,
                         had |-> ListItems(heap, clipboard_stations[b]),
                         voided |-> AllocateVoidTiles(new),
                         asserts |-> \A k \in DOMAIN AllocateVoidTiles(new) :
                            SetTileTypeAsserts(new, AllocateVoidTiles(new)[k], MP_VOID)]
            /\ UNCHANGED builder
            /\ ClipOthersUnchanged

\* EmptyClipboardBuffer(GetClipboardBuffer(b))
ClipEmpty(indexes) ==
    \E b \in indexes :
        /\ IF IsClipboardBufferEmpty(clipboard_buffers[b])
           THEN UNCHANGED <<heap, clipboard_stations, clipboard_buffers>>
           ELSE LET set == SetClipboardStationList(heap, clipboard_stations, NULL, b)
                IN  /\ heap' = set.heap
                    /\ clipboard_stations' = set.stations
                    /\ clipboard_buffers' =
                          [clipboard_buffers EXCEPT ![b] = EmptyClipboardBuffer(@)]
        /\ ccall' = [op |-> "Empty", buffer |-> b,
                     was_empty |-> IsClipboardBufferEmpty(clipboard_buffers[b]),
                     had |-> ListItems(heap, clipboard_stations[b])]
        /\ UNCHANGED builder
        /\ ClipOthersUnchanged

\* ClipboardStationsBuilder builder;
BuilderConstruct ==
    /\ ~builder.alive
    /\ builder' = [alive |-> TRUE, stations |-> NULL, added |-> <<>>]
    /\ ccall' = [op |-> "Builder"]
    /\ UNCHANGED <<heap, clipboard_stations, clipboard_buffers>>
    /\ ClipOthersUnchanged

\* AddStation(sid) can be called: the station is in the list or there is
\* memory for a new one
CanAddStation(sid) ==
    \/ StationLink(heap, builder.stations, FindStation(heap, builder.stations, sid)) # NULL
    \/ CanAllocateStation(heap)

\* history: the distinct ids passed to the builder, in the order they came
AddedWith(sid) ==
    IF \E i \in DOMAIN builder.added : builder.added[i] = sid
    THEN builder.added
    ELSE Append(builder.added, sid)

\* builder.AddPart(sid)
BuilderAddPart ==
    /\ builder.alive
    /\ \E sid \in StationIDs :
          /\ CanAddStation(sid)
          /\ LET add == AddStation(heap, builder.stations, sid)
             IN  /\ heap' = add.heap
                 /\ builder' = [builder EXCEPT !.stations = add.stations,
                                               !.added = AddedWith(sid)]
                 /\ ccall' = [op |-> "AddPart", sid |-> sid]
    /\ UNCHANGED <<clipboard_stations, clipboard_buffers>>
    /\ ClipOthersUnchanged

\* builder.AddRailPart(sid, station_class, station_type, specindex), for
\* arguments that pass the assertions of AddSpecToStation
BuilderAddRailPart ==
    /\ builder.alive
    /\ \E sid \in StationIDs, station_class \in StationClasses,
          station_type \in StationTypes, specindex \in 0 .. MaxSpecIndex :
          /\ CanAddStation(sid)
          /\ LET add == AddStation(heap, builder.stations, sid)
             IN  /\ AddSpecAsserts(add.heap[add.st], station_class, station_type, specindex)
                 /\ heap' = [add.heap EXCEPT ![add.st] =
                       AddSpecToStation(@, station_class, station_type, specindex)]
                 /\ builder' = [builder EXCEPT !.stations = add.stations,
                                               !.added = AddedWith(sid)]
                 /\ ccall' = [op |-> "AddRailPart", sid |-> sid]
    /\ UNCHANGED <<clipboard_stations, clipboard_buffers>>
    /\ ClipOthersUnchanged

\* builder.AddAirportPart(sid, tile, type, layout) for a station that has no
\* airport yet; spec is what AirportSpec::Get(type) returns
BuilderAddAirportPart ==
    /\ builder.alive
    /\ \E sid \in StationIDs, spec \in AirportSpecs :
          /\ CanAddStation(sid)
          /\ LET add == AddStation(heap, builder.stations, sid)
             IN  /\ add.heap[add.st].airport.type = AT_INVALID
                 /\ heap' = [add.heap EXCEPT ![add.st] = AddAirportPart(@, 0, 0, 0, spec)]
                 /\ builder' = [builder EXCEPT !.stations = add.stations,
                                               !.added = AddedWith(sid)]
                 /\ ccall' = [op |-> "AddAirportPart", sid |-> sid]
    /\ UNCHANGED <<clipboard_stations, clipboard_buffers>>
    /\ ClipOthersUnchanged

\* BuildDone that leaves the builder its list
BuilderBuildDoneKeepList(indexes) ==
    /\ builder.alive
    /\ \E b \in indexes :
          LET set == SetClipboardStationList(heap, clipboard_stations, builder.stations, b)
          IN  /\ heap' = set.heap
              /\ clipboard_stations' = set.stations
              /\ ccall' = [op |-> "BuildDone", buffer |-> b,
                           had |-> ListItems(heap, clipboard_stations[b]),
                           built |-> ListItems(heap, builder.stations)]
    /\ UNCHANGED <<clipboard_buffers, builder>>
    /\ ClipOthersUnchanged

\* builder.BuildDone(GetClipboardBuffer(b))
BuilderBuildDone(indexes) ==
    /\ builder.alive
    /\ \E b \in indexes :
          LET set == SetClipboardStationList(heap, clipboard_stations, builder.stations, b)
          IN  /\ heap' = set.heap
              /\ clipboard_stations' = set.stations
              /\ builder' = [builder EXCEPT !.stations = NULL, !.added = <<>>]
              /\ ccall' = [op |-> "BuildDone", buffer |-> b,
                           had |-> ListItems(heap, clipboard_stations[b]),
                           built |-> ListItems(heap, builder.stations)]
    /\ UNCHANGED clipboard_buffers
    /\ ClipOthersUnchanged

\* the builder goes out of scope: ~ClipboardStationsBuilder()
BuilderDestroy ==
    /\ builder.alive
    /\ heap' = FreeClipboardStationList(heap, builder.stations)
    /\ builder' = [alive |-> FALSE, stations |-> NULL, added |-> <<>>]
    /\ ccall' = [op |-> "~Builder", built |-> ListItems(heap, builder.stations)]
    /\ UNCHANGED <<clipboard_stations, clipboard_buffers>>
    /\ ClipOthersUnchanged

NextClip ==
    \/ ClipAllocate(ClipboardBufferIndexes, {MinContentSize})
    \/ ClipEmpty(ClipboardBufferIndexes)
    \/ BuilderConstruct
    \/ BuilderAddPart
    \/ BuilderBuildDone(ClipboardBufferIndexes)
    \/ BuilderDestroy

SpecClip == InitClip /\ [][NextClip]_vars

NextClipA ==
    \/ ClipAllocate({0}, MinContentSize .. MaxContent)
    \/ ClipEmpty({0})
    \/ BuilderConstruct
    \/ BuilderAddPart
    \/ BuilderBuildDone({0})
    \/ BuilderDestroy

SpecClipA == InitClip /\ [][NextClipA]_vars

\* SpecBuild: one builder and the calls that add parts
NextBuild ==
    \/ BuilderConstruct
    \/ BuilderAddPart
    \/ BuilderAddRailPart
    \/ BuilderAddAirportPart

SpecBuild == InitClip /\ [][NextBuild]_vars

-----------------------------------------------------------------------------
(* Properties of the clipboard *)

\* the buffer the last call was made on
CallBuffer == clipboard_buffers[ccall.buffer]

\* the tiles on the southern borders of a buffer: x = size_x - 1 or y = size_y - 1
BorderTiles(buffer) ==
    {t \in Tiles(buffer) :
        TileX(buffer, t) = MapMaxX(buffer) \/ TileY(buffer, t) = MapMaxY(buffer)}

\* C17: after AllocateClipboardBuffer(buffer, cx, cy) with cx, cy >= 1 the
\* buffer is not empty, size_x = cx + 1, size_y = cy + 1, size = size_x *
\* size_y, it has no stations, and tile (x, y) is void exactly when x = cx or
\* y = cy; the two loops visit each border tile once and no other tile, each
\* tile made void is not an inner tile, as SetTileType asserts, and the inner
\* tiles stay zero-initialised
C17_AllocateMakesBorderVoid ==
    ccall.op = "Allocate" =>
        /\ ~IsClipboardBufferEmpty(CallBuffer)
        /\ CallBuffer.size_x = ccall.cx + 1
        /\ CallBuffer.size_y = ccall.cy + 1
        /\ CallBuffer.size = CallBuffer.size_x * CallBuffer.size_y
        /\ Len(CallBuffer.m.t) = CallBuffer.size
        /\ Len(CallBuffer.me.t) = CallBuffer.size
        /\ clipboard_stations[ccall.buffer] = NULL
        /\ \A id \in StationIDs :
              ClipboardStationGet(heap, clipboard_stations, id, ccall.buffer) = NULL
        /\ \A t \in Tiles(CallBuffer) :
              (CallBuffer.m.t[t + 1] = MP_VOID) <=>
                 (TileX(CallBuffer, t) = ccall.cx \/ TileY(CallBuffer, t) = ccall.cy)
        /\ NoDuplicates(ccall.voided)
        /\ Range(ccall.voided) = BorderTiles(CallBuffer)
        /\ ccall.asserts
        /\ \A t \in Range(ccall.voided) : ~IsInnerTile(CallBuffer, t)
        /\ \A t \in Tiles(CallBuffer) :
              IsInnerTile(CallBuffer, t) =>
                 CallBuffer.m.t[t + 1] = MP_CLEAR /\ CallBuffer.me.t[t + 1] = 0

\* a buffer that held two stations was allocated anew for a content of 2 x 1
C17_Witness ==
    /\ ccall.op = "Allocate"
    /\ ccall.cx = 2
    /\ ccall.cy = 1
    /\ Len(ccall.had) = 2

\* what a step leaves alone when it does not touch buffer b: its map, its
\* station list and the stations on that list
BufferUntouched(b) ==
    /\ clipboard_buffers'[b] = clipboard_buffers[b]
    /\ clipboard_stations'[b] = clipboard_stations[b]
    /\ \A p \in Range(ListItems(heap, clipboard_stations[b])) : heap'[p] = heap[p]

\* what EmptyClipboardBuffer(GetClipboardBuffer(b)) does in one step
EmptyStep(b) ==
    /\ \A o \in ClipboardBufferIndexes \ {b} : BufferUntouched(o)
    /\ IsClipboardBufferEmpty(clipboard_buffers[b]) =>
          UNCHANGED <<clipboard_buffers, clipboard_stations, heap, builder>>
    /\ ~IsClipboardBufferEmpty(clipboard_buffers[b]) =>
          /\ IsClipboardBufferEmpty(clipboard_buffers'[b])
          /\ ~clipboard_buffers'[b].me.alloc
          /\ clipboard_buffers'[b].size_x = 0
          /\ clipboard_buffers'[b].size_y = 0
          /\ clipboard_buffers'[b].size = 0
          /\ clipboard_stations'[b] = NULL
          /\ \A id \in StationIDs :
                ClipboardStationGet(heap', clipboard_stations', id, b) = NULL

\* C18: EmptyClipboardBuffer on a buffer that is not empty leaves it empty,
\* both arrays released, size_x, size_y and size 0 and no station associated;
\* on an empty buffer it changes nothing; it never affects another buffer
C18_EmptyClearsOneBuffer ==
    [][ccall'.op = "Empty" => EmptyStep(ccall'.buffer)]_vars

\* a buffer with stations was emptied while another buffer, not empty, holds
\* stations
C18_Witness ==
    /\ ccall.op = "Empty"
    /\ ~ccall.was_empty
    /\ Len(ccall.had) >= 1
    /\ \E o \in ClipboardBufferIndexes \ {ccall.buffer} :
          /\ ~IsClipboardBufferEmpty(clipboard_buffers[o])
          /\ clipboard_stations[o] # NULL

\* C19: after any sequence of AllocateClipboardBuffer, EmptyClipboardBuffer
\* and BuildDone calls every empty buffer has no station list:
\* ClipboardStation::Get(id, buffer) is NULL for every id
C19_AsStated ==
    \A b \in ClipboardBufferIndexes :
        IsClipboardBufferEmpty(clipboard_buffers[b]) =>
            /\ clipboard_stations[b] = NULL
            /\ \A id \in StationIDs :
                  ClipboardStationGet(heap, clipboard_stations, id, b) = NULL

\* the holders of station lists: the builder and every buffer
Holders ==
    {[kind |-> "builder", index |-> 0]}
        \cup {[kind |-> "buffer", index |-> b] : b \in ClipboardBufferIndexes}

HolderList(hd) ==
    IF hd.kind = "builder" THEN ListItems(heap, builder.stations)
    ELSE ListItems(heap, clipboard_stations[hd.index])

\* the places, holder and position in its list, station p is found at
StationPlaces(p) ==
    {pl \in Holders \X StationPointers :
        pl[2] \in DOMAIN HolderList(pl[1]) /\ HolderList(pl[1])[pl[2]] = p}

AllFreed(items) == \A p \in Range(items) : heap[p].state = "freed"

\* every station is freed at most once, a station that lives is in the list of
\* exactly one holder, and no list leads to a freed station; BuildDone has
\* moved the builder's list to the buffer, and the list a buffer had before
\* BuildDone, Allocate or Empty replaced it is freed, as is the list a builder
\* had when it was destroyed
OwnershipInv ==
    /\ \A p \in StationPointers :
          /\ heap[p].frees <= 1
          /\ heap[p].state = "live" => Cardinality(StationPlaces(p)) = 1
          /\ heap[p].state # "live" => StationPlaces(p) = {}
    /\ ~builder.alive => builder.stations = NULL
    /\ ccall.op = "BuildDone" =>
          /\ builder.stations = NULL
          /\ ListItems(heap, clipboard_stations[ccall.buffer]) = ccall.built
          /\ AllFreed(ccall.had)
    /\ ccall.op = "Allocate" => AllFreed(ccall.had)
    /\ (ccall.op = "Empty" /\ ~ccall.was_empty) => AllFreed(ccall.had)
    /\ ccall.op = "~Builder" => AllFreed(ccall.built)

\* the destructor of a builder frees the stations of the builder's list only
DestroyStep ==
    \A p \in StationPointers :
        heap'[p] # heap[p] => p \in Range(ListItems(heap, builder.stations))

\* C20: every ClipboardStation a builder created is owned by exactly one
\* holder at any time and freed once: BuildDone moves the list to the buffer
\* and leaves the builder's list NULL, the list a buffer held is freed when
\* BuildDone, Allocate or Empty replace it, the builder's destructor frees only
\* the stations not handed over, no station is freed twice and no buffer is
\* left pointing at a freed station
C20_SingleOwner ==
    /\ []OwnershipInv
    /\ [][ccall'.op = "~Builder" => DestroyStep]_vars

\* BuildDone replaced the list of a buffer, which held a station, by the
\* builder's list of two stations
C20_Witness ==
    /\ ccall.op = "BuildDone"
    /\ Len(ccall.had) >= 1
    /\ Len(ccall.built) = 2

\* the calls that add a part to a builder
AddCalls == {"AddPart", "AddRailPart", "AddAirportPart"}

\* the ids of the stations of a list, in the list's order
ListIds(items) == [i \in DOMAIN items |-> heap[items[i]].id]

\* what a call that adds a part for the id sid does to the builder's list:
\* for an id the list has, the list stays as it is, its stations where they
\* were; for a new id, one new station with that id is put at the back
AddStep(sid) ==
    LET items == ListItems(heap, builder.stations)
        after == ListItems(heap', builder'.stations)
    IN  IF \E i \in DOMAIN items : heap[items[i]].id = sid
        THEN /\ after = items
             /\ ListIds(items)' = ListIds(items)
        ELSE /\ Len(after) = Len(items) + 1
             /\ SubSeq(after, 1, Len(items)) = items
             /\ heap[after[Len(after)]].state = "unused"
             /\ heap'[after[Len(after)]].id = sid

\* C21: after any sequence of AddPart, AddRailPart and AddAirportPart calls
\* the builder's list holds exactly one station for each distinct id passed
\* so far, in the order the ids were first passed; a call with an id that is
\* in the list leaves the length and the order of the list as they were, a
\* call with a new id puts one new station at the back
C21_OnePerIdInOrder ==
    /\ [](builder.alive =>
            /\ NoDuplicates(builder.added)
            /\ ListIds(ListItems(heap, builder.stations)) = builder.added)
    /\ [][ccall'.op \in AddCalls => AddStep(ccall'.sid)]_vars

\* AddAirportPart was called with the id of the first of two stations in the
\* list, a station that has a speclist from AddRailPart
C21_Witness ==
    /\ builder.alive
    /\ ccall.op = "AddAirportPart"
    /\ Len(builder.added) = 2
    /\ ccall.sid = builder.added[1]
    /\ Len(heap[builder.stations].speclist) >= 1
    /\ heap[builder.stations].airport.type # AT_INVALID

====
